---- MODULE Spec2Model ----
(***************************************************************************)
(* Model of the streaming chat relay of src/main.py (websocket_chat), its  *)
(* prompt composer (build_messages) and its in-memory billing ledger       *)
(* (BILLING_RECORDS), with the calls made beside the chat: the ledger dump  *)
(* (billing_debug) and the two conversions (speech_to_text,                *)
(* text_to_speech).                                                        *)
(*                                                                         *)
(* Each connection is served by one coroutine.  The coroutine is split     *)
(* into actions at the points where it awaits something the environment    *)
(* decides: the next inbound frame, the opening of the provider stream,    *)
(* the next fragment of the provider stream.  Everything the coroutine     *)
(* does between two such points is one action.                             *)
(*                                                                         *)
(* Texts are sequences of one-character strings, so that lower-casing and  *)
(* substring search are computed.  An optional value (Python None or a     *)
(* value) is a sequence of length 0 or 1.                                  *)
(*                                                                         *)
(* A clock reading is a float, a binary fraction: time is counted in ticks  *)
(* of 1/1024 second, which a float holds exactly, so that the difference   *)
(* of two readings and round(x, 2) on it are computed as Python computes   *)
(* them.  A billing duration is counted in hundredths of a second, the     *)
(* unit round(x, 2) rounds to.                                             *)
(*                                                                         *)
(* websocket.send_text on a connection the client has left raises (in      *)
(* Starlette a WebSocketDisconnect, then a RuntimeError on the next send). *)
(* The send of the done frame is a step of its own: it is awaited after    *)
(* the billing record was appended, and the ledger is read by other        *)
(* requests meanwhile.  The send of a chunk or of an error frame is part   *)
(* of the step that decides it: nothing another request can read changes   *)
(* between the decision and the send.                                      *)
(***************************************************************************)
EXTENDS Integers, Sequences, FiniteSets, TLC

\* ------------------------------------------------------------------ bounds
MaxTurns == 2      \* user_message frames a client sends on one connection
MaxInbox == 1      \* frames waiting unread on one connection
MaxChunks == 1     \* fragments a provider stream yields before it ends
MaxText == 2       \* characters of an utterance or a whisper given to build_messages

Sessions == {"s1", "s2"}

\* the connection whose client is active under Spec
Served == {"s1"}

\* what the clock can read (time.time(), time.gmtime()), in ticks of 1/1024
\* second.  It is the wall clock: two readings are in no fixed order, the
\* later one can be the smaller.
Readings == {0, 1032}

\* ------------------------------------------------------------- texts
None == <<>>
Some(v) == <<v>>

Upper == <<"A","B","C","D","E","F","G","H","I","J","K","L","M","N","O","P","Q","R","S","T","U","V","W","X","Y","Z","À","Á","Â","Ã","Ä","Å","Æ","Ç","È","É","Ê","Ë","Ì","Í","Î","Ï","Ð","Ñ","Ò","Ó","Ô","Õ","Ö","Ø","Ù","Ú","Û","Ü","Ý","Þ">>
LowerOf == <<"a","b","c","d","e","f","g","h","i","j","k","l","m","n","o","p","q","r","s","t","u","v","w","x","y","z","à","á","â","ã","ä","å","æ","ç","è","é","ê","ë","ì","í","î","ï","ð","ñ","ò","ó","ô","õ","ö","ø","ù","ú","û","ü","ý","þ">>

\* str.lower() on one character.  Upper holds every character of Latin-1 (the
\* characters a string of this module can hold) that str.lower() changes;
\* each of them is lowered to one character.
LowerChar(c) ==
  IF \E i \in 1..Len(Upper) : Upper[i] = c
  THEN LowerOf[CHOOSE i \in 1..Len(Upper) : Upper[i] = c]
  ELSE c

\* str.lower()
Lower(t) == [i \in 1..Len(t) |-> LowerChar(t[i])]

\* needle in hay
Contains(needle, hay) ==
  \E i \in 0..(Len(hay) - Len(needle)) :
    \A j \in 1..Len(needle) : hay[i + j] = needle[j]

ApiKeyNeedle == <<"a","p","i","_","k","e","y">>

WsKeyMessage == <<"O","p","e","n","A","I"," ","A","P","I"," ","k","e","y"," ","n","o","t"," ","c","o","n","f","i","g","u","r","e","d","."," ","P","l","e","a","s","e"," ","s","e","t"," ","O","P","E","N","A","I","_","A","P","I","_","K","E","Y"," ","i","n"," ","R","e","p","l","i","t"," ","S","e","c","r","e","t","s",".">>

\* the except branch of websocket_chat: str(e), replaced when it names api_key
WsErrorMessage(e) ==
  IF Contains(ApiKeyNeedle, Lower(e)) THEN WsKeyMessage ELSE e

\* str(e) of the failures the provider raises in the model
ErrTimeout == <<"t","i","m","e","o","u","t">>
ErrNoKey == <<"N","o"," ","A","P","I","_","K","E","Y"," ","s","e","t">>
ProviderErrors == {ErrTimeout, ErrNoKey}

MASTER_THERAPY_PROMPT == "\nYou are an empathetic, licensed-therapist-style AI assistant.\nYou respond with warmth, clarity, and psychological insight.\n[TODO: real master prompt text will be pasted here later.]\n"
model_name == "gpt-4o-mini"

\* Python truthiness of an optional text: not None and not empty
\* Truthy with "is not None" in place of truth
Truthy_present(o) == Len(o) = 1

Truthy(o) == Len(o) = 1 /\ Len(o[1]) > 0

build_messages(patient_text, therapist_whisper) ==
  <<[role |-> "system", content |-> MASTER_THERAPY_PROMPT]>>
  \o (IF Truthy(therapist_whisper)
      THEN <<[role |-> "system", content |-> therapist_whisper[1]]>>
      ELSE <<>>)
  \o <<[role |-> "user", content |-> patient_text]>>

\* ------------------------------------------------------- inbound frames
TextHi == <<"h","i">>

FrameUser == "{\"type\":\"user_message\",\"text\":\"hi\"}"
FrameUserNoText == "{\"type\":\"user_message\"}"
FramePing == "{\"type\":\"ping\"}"
FrameNoType == "{\"text\":\"hi\"}"
FrameArray == "[1]"
FrameBroken == "{\"type\":"

RawFrames == {FrameUser, FrameUserNoText, FramePing, FrameNoType, FrameArray, FrameBroken}

\* json.loads on the frames above: ok is FALSE when it raises; isObject says
\* whether the value is a dict; type and text are what dict.get finds
json_loads(data) ==
  CASE data = FrameUser ->
         [ok |-> TRUE, isObject |-> TRUE, type |-> Some("user_message"), text |-> Some(TextHi)]
    [] data = FrameUserNoText ->
         [ok |-> TRUE, isObject |-> TRUE, type |-> Some("user_message"), text |-> None]
    [] data = FramePing ->
         [ok |-> TRUE, isObject |-> TRUE, type |-> Some("ping"), text |-> None]
    [] data = FrameNoType ->
         [ok |-> TRUE, isObject |-> TRUE, type |-> None, text |-> Some(TextHi)]
    [] data = FrameArray ->
         [ok |-> TRUE, isObject |-> FALSE, type |-> None, text |-> None]
    [] OTHER ->
         [ok |-> FALSE, isObject |-> FALSE, type |-> None, text |-> None]

\* IsUserMessage taking every frame that has a type for a user_message
IsUserMessage_anyType(message) == message.type # <<>>

\* message.get("type") == "user_message"
IsUserMessage(message) == message.type = Some("user_message")

\* message.get("text", "")
GetText(message) == IF message.text = None THEN <<>> ELSE message.text[1]

\* json.loads(data) or message.get raises: the handler leaves its loop
RaisesOnReceive(message) == ~message.ok \/ ~message.isObject

\* --------------------------------------------------- provider fragments
ChunkNoChoices == [choices |-> <<>>]
ChunkOf(content) == [choices |-> <<[delta |-> [content |-> content]]>>]

ProviderChunks ==
  {ChunkNoChoices, ChunkOf(Some(<<>>)), ChunkOf(Some(<<"a">>)), ChunkOf(Some(<<"b">>))}

\* if chunk.choices and len(chunk.choices) > 0: ... if delta.content:
HasContent(chunk) ==
  Len(chunk.choices) > 0 /\ Truthy(chunk.choices[1].delta.content)

\* ------------------------------------------------------ outbound frames
ChunkFrame(text) == [type |-> "chunk", text |-> text]
DoneFrame == [type |-> "done"]
ErrorFrame(text) == [type |-> "error", text |-> text]

\* ---------------------------------------------------------------- billing
\* round(x, 2) on a duration of t ticks, in hundredths of a second: the
\* nearest hundredth to t/1024, an exact tie going to the even neighbour
Round2(t) ==
  LET n == t * 100
      q == n \div 1024
      r == n % 1024
  IN  IF 2 * r < 1024 THEN q
      ELSE IF 2 * r > 1024 THEN q + 1
      ELSE IF q % 2 = 0 THEN q ELSE q + 1

\* time.strftime("%Y-%m-%d %H:%M:%S", time.gmtime()) on a reading of t ticks:
\* the second the reading falls in
FormatTimestamp(t) == t \div 1024

\* ------------------------------------------------------------------ state
VARIABLES
  BILLING_RECORDS,  \* the ledger
  pc,               \* where each session's coroutine is: Idle (awaiting a
                    \* frame), Opening (awaiting create), Streaming (awaiting
                    \* a fragment), Finishing (awaiting the send of done),
                    \* Closed (the handler has returned)
  connected,        \* whether the client of the session is still there
  inbox,            \* frames the client sent that the coroutine has not read
  start_time,       \* start_time of the session's latest turn
  end_time,         \* end_time of the session's latest turn that reached line 281
  messages,         \* messages of the session's latest turn
  out,              \* frames sent to the client for the latest turn
  delivered,        \* fragments the provider yielded in the latest turn
  turns,            \* number of turns the session has accepted
  ends,             \* number of turns whose provider stream ended naturally
  discAt,           \* where the coroutine was when its client left
  received,         \* what the latest frame read was taken for
  request,          \* the latest call made beside the chat, with its inputs
  response          \* what that call returned

vars == <<BILLING_RECORDS, pc, connected, inbox, start_time, end_time, messages,
          out, delivered, turns, ends, discAt, received, request, response>>

\* BillingRecord with the duration charged by the length of the utterance
BillingRecord_perChar(session_id, start, end, stamp) ==
  [session_id |-> session_id,
   duration_seconds |-> Round2(end - start) + Len(messages[session_id][2].content),
   model |-> model_name,
   timestamp |-> FormatTimestamp(stamp)]

\* the dict of lines 285-290; stamp is the clock read by time.gmtime()
BillingRecord(session_id, start, end, stamp) ==
  [session_id |-> session_id,
   duration_seconds |-> Round2(end - start),
   model |-> model_name,
   timestamp |-> FormatTimestamp(stamp)]

clientVars == <<connected, inbox, discAt>>
turnVars == <<start_time, end_time, messages, out, delivered, turns, ends>>
loopVars == <<turnVars, received>>
callVars == <<request, response>>

Init ==
  /\ BILLING_RECORDS = <<>>
  /\ pc = [s \in Sessions |-> "Idle"]
  /\ connected = [s \in Sessions |-> TRUE]
  /\ inbox = [s \in Sessions |-> <<>>]
  /\ start_time = [s \in Sessions |-> 0]
  /\ end_time = [s \in Sessions |-> 0]
  /\ messages = [s \in Sessions |-> <<>>]
  /\ out = [s \in Sessions |-> <<>>]
  /\ delivered = [s \in Sessions |-> <<>>]
  /\ turns = [s \in Sessions |-> 0]
  /\ ends = [s \in Sessions |-> 0]
  /\ discAt = [s \in Sessions |-> "none"]
  /\ received = [s \in Sessions |-> "nothing"]
  /\ request = [endpoint |-> "none"]
  /\ response = [status |-> 0]

\* ------------------------------------------------------------ environment
\* user_message frames of the session sent and not yet read
Pending(s) ==
  Cardinality({i \in 1..Len(inbox[s]) : IsUserMessage(json_loads(inbox[s][i]))})

ClientSend(s, data) ==
  /\ UNCHANGED callVars
  /\ connected[s]
  /\ pc[s] # "Closed"
  /\ Len(inbox[s]) < MaxInbox
  /\ IsUserMessage(json_loads(data)) => turns[s] + Pending(s) < MaxTurns
  /\ inbox' = [inbox EXCEPT ![s] = Append(@, data)]
  /\ UNCHANGED <<BILLING_RECORDS, pc, connected, discAt, loopVars>>

ClientDisconnect(s) ==
  /\ UNCHANGED callVars
  /\ connected[s]
  /\ pc[s] # "Closed"
  /\ connected' = [connected EXCEPT ![s] = FALSE]
  /\ discAt' = [discAt EXCEPT ![s] = pc[s]]
  /\ UNCHANGED <<BILLING_RECORDS, pc, inbox, loopVars>>

\* ------------------------------------------------------------------ relay
\* websocket.send_text succeeds while the client is there and raises after
CanSend(s) == connected[s]

\* ExceptReply with the error frame forgotten
ExceptReply_silent(s, e, o) ==
  IF connected[s] THEN [out |-> o, pc |-> "Idle"] ELSE [out |-> o, pc |-> "Closed"]

\* except Exception as e (inner): send the error frame and go round the loop;
\* when that send raises too, the exception leaves the loop and the handler
\* returns.  o is what was sent for the turn so far.
ExceptReply(s, e, o) ==
  IF CanSend(s)
  THEN [out |-> Append(o, ErrorFrame(WsErrorMessage(e))), pc |-> "Idle"]
  ELSE [out |-> o, pc |-> "Closed"]

\* CanReceive with frames read while a provider stream is relayed
CanReceive_anytime(s) == pc[s] \in {"Idle", "Streaming"}

\* receive_text is awaited at the top of the loop only
CanReceive(s) == pc[s] = "Idle"

\* data = await websocket.receive_text() up to await ...create(...)
Receive(s, now) ==
  /\ UNCHANGED callVars
  /\ CanReceive(s)
  /\ IF inbox[s] = <<>>
     THEN \* receive_text raises WebSocketDisconnect
          /\ ~connected[s]
          /\ pc' = [pc EXCEPT ![s] = "Closed"]
          /\ UNCHANGED <<inbox, loopVars>>
     ELSE LET data == Head(inbox[s])
              message == json_loads(data)
          IN  /\ inbox' = [inbox EXCEPT ![s] = Tail(@)]
              /\ IF RaisesOnReceive(message)
                 THEN \* except Exception (outer)
                      /\ pc' = [pc EXCEPT ![s] = "Closed"]
                      /\ received' = [received EXCEPT ![s] = "raised"]
                      /\ UNCHANGED turnVars
                 ELSE IF IsUserMessage(message)
                 THEN /\ start_time' = [start_time EXCEPT ![s] = now]
                      /\ messages' = [messages EXCEPT
                                        ![s] = build_messages(GetText(message), None)]
                      /\ out' = [out EXCEPT ![s] = <<>>]
                      /\ delivered' = [delivered EXCEPT ![s] = <<>>]
                      /\ turns' = [turns EXCEPT ![s] = @ + 1]
                      /\ pc' = [pc EXCEPT ![s] = "Opening"]
                      /\ received' = [received EXCEPT ![s] = "turn"]
                      /\ UNCHANGED <<ends, end_time>>
                 ELSE /\ received' = [received EXCEPT ![s] = "ignored"]
                      /\ UNCHANGED <<pc, turnVars>>
  /\ UNCHANGED <<BILLING_RECORDS, connected, discAt>>

\* stream = await client.chat.completions.create(...) returns
CreateOk(s) ==
  /\ UNCHANGED callVars
  /\ pc[s] = "Opening"
  /\ pc' = [pc EXCEPT ![s] = "Streaming"]
  /\ UNCHANGED <<BILLING_RECORDS, clientVars, loopVars>>

\* stream = await client.chat.completions.create(...) raises e
CreateFail(s, e) ==
  /\ UNCHANGED callVars
  /\ pc[s] = "Opening"
  /\ LET r == ExceptReply(s, e, out[s])
     IN  /\ out' = [out EXCEPT ![s] = r.out]
         /\ pc' = [pc EXCEPT ![s] = r.pc]
  /\ UNCHANGED <<BILLING_RECORDS, clientVars, start_time, end_time, messages,
                 delivered, turns, ends, received>>

\* async for chunk in stream: the stream yields chunk
StreamChunk(s, chunk) ==
  /\ UNCHANGED callVars
  /\ pc[s] = "Streaming"
  /\ Len(delivered[s]) < MaxChunks
  /\ delivered' = [delivered EXCEPT ![s] = Append(@, chunk)]
  /\ IF HasContent(chunk)
     THEN IF CanSend(s)
          THEN /\ out' = [out EXCEPT
                            ![s] = Append(@, ChunkFrame(chunk.choices[1].delta.content[1]))]
               /\ UNCHANGED pc
          ELSE \* send_text raises inside the try
               LET r == ExceptReply(s, <<>>, out[s])
               IN  /\ out' = [out EXCEPT ![s] = r.out]
                   /\ pc' = [pc EXCEPT ![s] = r.pc]
     ELSE UNCHANGED <<out, pc>>
  /\ UNCHANGED <<BILLING_RECORDS, clientVars, start_time, end_time, messages,
                 turns, ends, received>>

\* StreamEnd with the record inserted at the head of the ledger
StreamEnd_prepend(s, now, stamp) ==
  /\ UNCHANGED callVars
  /\ pc[s] = "Streaming"
  /\ end_time' = [end_time EXCEPT ![s] = now]
  /\ BILLING_RECORDS' = <<BillingRecord(s, start_time[s], now, stamp)>> \o BILLING_RECORDS
  /\ ends' = [ends EXCEPT ![s] = @ + 1]
  /\ pc' = [pc EXCEPT ![s] = "Finishing"]
  /\ UNCHANGED <<clientVars, start_time, messages, out, delivered, turns, received>>

\* StreamEnd with start_time shared by the connections
StreamEnd_otherStart(s, now, stamp) ==
  /\ UNCHANGED callVars
  /\ pc[s] = "Streaming"
  /\ end_time' = [end_time EXCEPT ![s] = now]
  /\ LET t == CHOOSE u \in Sessions : u # s
     IN  BILLING_RECORDS' =
           Append(BILLING_RECORDS, BillingRecord(s, start_time[t], now, stamp))
  /\ ends' = [ends EXCEPT ![s] = @ + 1]
  /\ pc' = [pc EXCEPT ![s] = "Finishing"]
  /\ UNCHANGED <<clientVars, start_time, messages, out, delivered, turns, received>>

\* StreamEnd with the record appended only for a client that is still there
StreamEnd_billIfConnected(s, now, stamp) ==
  /\ UNCHANGED callVars
  /\ pc[s] = "Streaming"
  /\ end_time' = [end_time EXCEPT ![s] = now]
  /\ BILLING_RECORDS' =
       IF connected[s]
       THEN Append(BILLING_RECORDS, BillingRecord(s, start_time[s], now, stamp))
       ELSE BILLING_RECORDS
  /\ ends' = [ends EXCEPT ![s] = @ + 1]
  /\ pc' = [pc EXCEPT ![s] = "Finishing"]
  /\ UNCHANGED <<clientVars, start_time, messages, out, delivered, turns, received>>

\* StreamEnd with the append left for after the done frame
StreamEnd_billAfterDone(s, now, stamp) ==
  /\ UNCHANGED callVars
  /\ pc[s] = "Streaming"
  /\ end_time' = [end_time EXCEPT ![s] = now]
  /\ ends' = [ends EXCEPT ![s] = @ + 1]
  /\ pc' = [pc EXCEPT ![s] = "Finishing"]
  /\ UNCHANGED <<BILLING_RECORDS, clientVars, start_time, messages, out, delivered,
                 turns, received>>

\* async for chunk in stream: the stream ends; lines 281-293, up to the await
\* of line 295.  now is the clock read at line 281, stamp the clock read at
\* line 289.
StreamEnd(s, now, stamp) ==
  /\ UNCHANGED callVars
  /\ pc[s] = "Streaming"
  /\ end_time' = [end_time EXCEPT ![s] = now]
  /\ BILLING_RECORDS' =
       Append(BILLING_RECORDS, BillingRecord(s, start_time[s], now, stamp))
  /\ ends' = [ends EXCEPT ![s] = @ + 1]
  /\ pc' = [pc EXCEPT ![s] = "Finishing"]
  /\ UNCHANGED <<clientVars, start_time, messages, out, delivered, turns, received>>

\* SendDone returning from the handler after the done frame
SendDone_close(s) ==
  /\ UNCHANGED callVars
  /\ pc[s] = "Finishing"
  /\ out' = [out EXCEPT ![s] = IF connected[s] THEN Append(@, [type |-> "done"]) ELSE @]
  /\ pc' = [pc EXCEPT ![s] = "Closed"]
  /\ UNCHANGED <<BILLING_RECORDS, clientVars, start_time, end_time, messages,
                 delivered, turns, ends, received>>

\* SendDone with the record taken back when the done frame cannot be sent
SendDone_rollback(s) ==
  /\ UNCHANGED callVars
  /\ pc[s] = "Finishing"
  /\ out' = [out EXCEPT ![s] = IF connected[s] THEN Append(@, [type |-> "done"]) ELSE @]
  /\ pc' = [pc EXCEPT ![s] = IF connected[s] THEN "Idle" ELSE "Closed"]
  /\ BILLING_RECORDS' =
       IF connected[s]
       THEN BILLING_RECORDS
       ELSE SubSeq(BILLING_RECORDS, 1, Len(BILLING_RECORDS) - 1)
  /\ UNCHANGED <<clientVars, start_time, end_time, messages, delivered, turns, ends,
                 received>>

\* await websocket.send_text(json.dumps({"type": "done"})), line 295, completes
SendDone(s) ==
  /\ UNCHANGED callVars
  /\ pc[s] = "Finishing"
  /\ IF CanSend(s)
     THEN /\ out' = [out EXCEPT ![s] = Append(@, DoneFrame)]
          /\ pc' = [pc EXCEPT ![s] = "Idle"]
     ELSE \* send_text raises inside the try
          LET r == ExceptReply(s, <<>>, out[s])
          IN  /\ out' = [out EXCEPT ![s] = r.out]
              /\ pc' = [pc EXCEPT ![s] = r.pc]
  /\ UNCHANGED <<BILLING_RECORDS, clientVars, start_time, end_time, messages,
                 delivered, turns, ends, received>>

\* StreamFail with the request made again in place of the error frame
StreamFail_reopen(s, e) ==
  /\ UNCHANGED callVars
  /\ pc[s] = "Streaming"
  /\ pc' = [pc EXCEPT ![s] = "Opening"]
  /\ UNCHANGED <<BILLING_RECORDS, clientVars, turnVars, received>>

\* StreamFail with the exception taking the whole process down
StreamFail_crash(s, e) ==
  /\ UNCHANGED callVars
  /\ pc[s] = "Streaming"
  /\ pc' = [t \in Sessions |-> "Closed"]
  /\ UNCHANGED <<BILLING_RECORDS, clientVars, turnVars, received>>

\* async for chunk in stream: the stream raises e
StreamFail(s, e) ==
  /\ UNCHANGED callVars
  /\ pc[s] = "Streaming"
  /\ LET r == ExceptReply(s, e, out[s])
     IN  /\ out' = [out EXCEPT ![s] = r.out]
         /\ pc' = [pc EXCEPT ![s] = r.pc]
  /\ UNCHANGED <<BILLING_RECORDS, clientVars, start_time, end_time, messages,
                 delivered, turns, ends, received>>

\* str(e) of the provider failures of the chat specifications; the texts that
\* name the credential are raised under SpecErr
AllErrors == {ErrTimeout}

Next ==
  \/ \E s \in Served, data \in RawFrames : ClientSend(s, data)
  \/ \E s \in Served : ClientDisconnect(s)
  \/ \E s \in Served, now \in Readings : Receive(s, now)
  \/ \E s \in Served : CreateOk(s)
  \/ \E s \in Served, e \in AllErrors : CreateFail(s, e)
  \/ \E s \in Served, chunk \in ProviderChunks : StreamChunk(s, chunk)
  \/ \E s \in Served, now \in Readings, stamp \in Readings : StreamEnd(s, now, stamp)
  \/ \E s \in Served : SendDone(s)
  \/ \E s \in Served, e \in AllErrors : StreamFail(s, e)

Spec == Init /\ [][Next]_vars

\* ------------------------------------------------------- other endpoints
\* GET /billing-debug
billing_debug(ledger) ==
  [note |-> "Debug endpoint - would be secured in production",
   total_sessions |-> Len(ledger),
   records |-> ledger]

BillingDebug ==
  /\ request' = [endpoint |-> "/billing-debug"]
  /\ response' = [status |-> 200, body |-> billing_debug(BILLING_RECORDS)]
  /\ UNCHANGED <<BILLING_RECORDS, pc, clientVars, loopVars>>

\* ---------------------------------------------- several connections at once
\* Every connection is served; each client sends one user_message frame,
\* each provider stream yields fragments with content, and the ledger is read
\* at any moment.
AllFrames == {FrameUser, FrameBroken}
AllChunks == {ChunkOf(Some(<<"a">>))}

\* the client's first and only frame
ClientSendOnce(s, data) ==
  /\ turns[s] + Len(inbox[s]) = 0
  /\ ClientSend(s, data)

NextAll ==
  \/ \E s \in Sessions, data \in AllFrames : ClientSendOnce(s, data)
  \/ \E s \in Sessions : ClientDisconnect(s)
  \/ \E s \in Sessions, now \in Readings : Receive(s, now)
  \/ \E s \in Sessions : CreateOk(s)
  \/ \E s \in Sessions, e \in AllErrors : CreateFail(s, e)
  \/ \E s \in Sessions, chunk \in AllChunks : StreamChunk(s, chunk)
  \/ \E s \in Sessions, now \in Readings, stamp \in Readings : StreamEnd(s, now, stamp)
  \/ \E s \in Sessions : SendDone(s)
  \/ \E s \in Sessions, e \in AllErrors : StreamFail(s, e)
  \/ BillingDebug

SpecAll == Init /\ [][NextAll]_vars

\* what the provider and the event loop do for a turn in flight of session s
ProviderStep(s) ==
  \/ CreateOk(s)
  \/ \E e \in AllErrors : CreateFail(s, e)
  \/ \E chunk \in AllChunks : StreamChunk(s, chunk)
  \/ \E now \in Readings, stamp \in Readings : StreamEnd(s, now, stamp)
  \/ SendDone(s)
  \/ \E e \in AllErrors : StreamFail(s, e)

\* the event loop resumes a coroutine whose await has completed, and every
\* provider call returns or raises: a turn in flight is not left waiting
Fairness == \A s \in Sessions : WF_vars(ProviderStep(s))

SpecFair == Init /\ [][NextAll]_vars /\ Fairness

\* -------------------------------------------------------- build_messages
Chars == {"h", "i", " "}

\* the utterances given to build_messages
Texts == UNION {[1..n -> Chars] : n \in 0..MaxText}

\* the whispers given to build_messages: None or a text
Whispers == {None} \cup {Some(t) : t \in Texts}

\* a call build_messages(patient_text, therapist_whisper)
Compose(u, w) ==
  /\ request' = [endpoint |-> "build_messages", patient_text |-> u, therapist_whisper |-> w]
  /\ response' = build_messages(u, w)
  /\ UNCHANGED <<BILLING_RECORDS, pc, clientVars, loopVars>>

NextCompose == \E u \in Texts, w \in Whispers : Compose(u, w)

SpecCompose == Init /\ [][NextCompose]_vars


\* ------------------------------------------------- conversion endpoints
ConvKeyMessage == <<"O","p","e","n","A","I"," ","A","P","I"," ","k","e","y"," ","n","o","t"," ","c","o","n","f","i","g","u","r","e","d">>

\* ConvErrorMessage with the search for api_key made case-sensitive
ConvErrorMessage_caseSensitive(e) ==
  IF Contains(ApiKeyNeedle, e) THEN ConvKeyMessage ELSE e

\* the except branches of speech_to_text and text_to_speech
ConvErrorMessage(e) ==
  IF Contains(ApiKeyNeedle, Lower(e)) THEN ConvKeyMessage ELSE e

ErrKeyName == <<"O","P","E","N","A","I","_","A","P","I","_","K","E","Y">>
ErrInvalid == <<"i","n","v","a","l","i","d"," ","a","p","i","_","k","e","y">>
ErrSpaced == <<"a","p","i"," ","k","e","y"," ","m","i","s","s","i","n","g">>
ErrMixed == <<"B","a","d"," ","A","p","i","_","K","e","y">>
ErrAccent == <<"A","P","Í","_","K","E","Y">>

\* str(e) of the failures a provider call raises under SpecErr
ErrorTexts == ProviderErrors \cup {ErrKeyName, ErrInvalid, ErrSpaced, ErrMixed, ErrAccent}

\* how a provider call of a conversion ends: with a value or raising text
ConvOutcomes ==
  {[ok |-> TRUE, text |-> TextHi]} \cup {[ok |-> FALSE, text |-> e] : e \in ErrorTexts}

\* POST /api/stt
speech_to_text(r) ==
  /\ request' = [endpoint |-> "/api/stt", outcome |-> r]
  /\ response' = IF r.ok
                 THEN [status |-> 200, body |-> [text |-> r.text]]
                 ELSE [status |-> 500, body |-> [error |-> ConvErrorMessage(r.text)]]
  /\ UNCHANGED <<BILLING_RECORDS, pc, clientVars, loopVars>>

\* POST /api/tts
text_to_speech(r) ==
  /\ request' = [endpoint |-> "/api/tts", outcome |-> r]
  /\ response' = IF r.ok
                 THEN [status |-> 200, body |-> [audio |-> r.text]]
                 ELSE [status |-> 500, body |-> [error |-> ConvErrorMessage(r.text)]]
  /\ UNCHANGED <<BILLING_RECORDS, pc, clientVars, loopVars>>

\* one chat client and the two conversion endpoints, every provider call
\* free to raise any of ErrorTexts
NextErr ==
  \/ \E s \in Served, data \in AllFrames : ClientSendOnce(s, data)
  \/ \E s \in Served, now \in Readings : Receive(s, now)
  \/ \E s \in Served : CreateOk(s)
  \/ \E s \in Served, e \in ErrorTexts : CreateFail(s, e)
  \/ \E s \in Served, e \in ErrorTexts : StreamFail(s, e)
  \/ \E r \in ConvOutcomes : speech_to_text(r)
  \/ \E r \in ConvOutcomes : text_to_speech(r)

SpecErr == Init /\ [][NextErr]_vars

\* ------------------------------------------------------------ properties
IsTerminal(f) == f.type \in {"done", "error"}

\* every frame but the last is a chunk frame
ChunksThenAtMostOne(o) == \A i \in 1..(Len(o) - 1) : o[i].type = "chunk"

EndsWithTerminal(o) == Len(o) > 0 /\ IsTerminal(o[Len(o)])

\* the session's latest turn is over
TurnOver(s) == turns[s] > 0 /\ pc[s] \in {"Idle", "Closed"}

\* the session is in the spec's Streaming state: a turn is in flight
InTurn(s) == pc[s] \in {"Opening", "Streaming", "Finishing"}

RECURSIVE CountOf(_, _)
\* number of records of the ledger that carry the session's id
CountOf(ledger, s) ==
  IF ledger = <<>> THEN 0
  ELSE (IF Head(ledger).session_id = s THEN 1 ELSE 0) + CountOf(Tail(ledger), s)

\* C1 as stated: once a turn is over, the frames sent for it are chunk frames
\* followed by exactly one terminal frame, done or error, also when the client
\* left during the turn (the turn was accepted with the client connected).
C1_Original ==
  \A s \in Sessions :
    (TurnOver(s) /\ discAt[s] # "Idle") =>
      ChunksThenAtMostOne(out[s]) /\ EndsWithTerminal(out[s])

\* C1 amended: the frames sent for a turn are chunk frames followed by at most
\* one terminal frame, done or error, and nothing after it; none is sent while
\* the turn is in flight; a turn that ends with the session back in Idle has
\* its terminal frame; a turn that ends without one ends in Closed with the
\* client gone.
C1_FrameGrammar ==
  \A s \in Sessions :
    /\ \A i \in 1..Len(out[s]) : out[s][i].type \in {"chunk", "done", "error"}
    /\ ChunksThenAtMostOne(out[s])
    /\ InTurn(s) => ~EndsWithTerminal(out[s])
    /\ (turns[s] > 0 /\ pc[s] = "Idle") => EndsWithTerminal(out[s])
    /\ (TurnOver(s) /\ ~EndsWithTerminal(out[s])) => (pc[s] = "Closed" /\ ~connected[s])

C1_Witness ==
  \E s \in Sessions :
    /\ pc[s] = "Idle"
    /\ connected[s]
    /\ Len(out[s]) = 2
    /\ out[s][1] = ChunkFrame(<<"b">>)
    /\ out[s][2].type = "done"

\* C2: the number of ledger records carrying a session's id equals the number
\* of that session's turns whose provider stream reached its natural end.
C2_OneRecordPerStreamEnd ==
  \A s \in Sessions : CountOf(BILLING_RECORDS, s) = ends[s]

C2_Witness ==
  \E s \in Sessions :
    /\ ends[s] = 2
    /\ turns[s] = 2
    /\ ~connected[s]
    /\ CountOf(BILLING_RECORDS, s) = 2

\* the provider raises in this step of session s
ProviderFails(s) ==
  \E e \in ProviderErrors : CreateFail(s, e) \/ StreamFail(s, e)

\* C3: a step in which the provider fails, in a turn accepted with the client
\* connected, appends no billing record, sends one error frame and takes the
\* session to Idle.
C3_ProviderFailure ==
  [][\A s \in Sessions :
       (ProviderFails(s) /\ discAt[s] # "Idle") =>
         /\ BILLING_RECORDS' = BILLING_RECORDS
         /\ Len(out'[s]) = Len(out[s]) + 1
         /\ out'[s][Len(out'[s])].type = "error"
         /\ pc'[s] = "Idle"]_vars

\* C4: a step that sends done or error leaves the session in Idle with its
\* client connected; a user_message read in Idle after a turn starts the next
\* turn; a session in a turn goes to Closed only when its client has left.
C4_TurnEndKeepsSession ==
  [][\A s \in Sessions :
       /\ (out'[s] # out[s] /\ EndsWithTerminal(out'[s])) =>
            (pc'[s] = "Idle" /\ connected'[s])
       /\ (/\ pc[s] = "Idle" /\ turns[s] > 0 /\ EndsWithTerminal(out[s])
           /\ inbox[s] # <<>> /\ inbox'[s] = Tail(inbox[s])
           /\ json_loads(Head(inbox[s])).type = Some("user_message")) =>
            (pc'[s] = "Opening" /\ turns'[s] = turns[s] + 1 /\ out'[s] = <<>>)
       /\ (InTurn(s) /\ pc'[s] = "Closed") => ~connected[s]]_vars

C4_Witness ==
  \E s \in Sessions :
    /\ turns[s] = 2
    /\ pc[s] = "Idle"
    /\ connected[s]
    /\ CountOf(BILLING_RECORDS, s) = 1
    /\ EndsWithTerminal(out[s])

\* C5: reading a frame that does not parse, or that parses to
\* something that is not an object, sends nothing, appends nothing and leaves
\* the session in Idle.
C5_MalformedIgnored ==
  [][\A s \in Sessions :
       (/\ pc[s] = "Idle" /\ inbox[s] # <<>> /\ inbox'[s] = Tail(inbox[s])
        /\ LET message == json_loads(Head(inbox[s]))
           IN  ~message.ok \/ ~message.isObject) =>
         /\ pc'[s] = "Idle"
         /\ out'[s] = out[s]
         /\ BILLING_RECORDS' = BILLING_RECORDS]_vars

\* C6: reading a frame that parses to an object whose type is absent or is
\* not user_message changes nothing but the inbox: no frame is sent, no turn
\* starts (no provider call), the ledger is unchanged, the session stays Idle.
C6_OtherTypeIsNoOp ==
  [][\A s \in Sessions :
       (/\ pc[s] = "Idle" /\ inbox[s] # <<>> /\ inbox'[s] = Tail(inbox[s])
        /\ LET message == json_loads(Head(inbox[s]))
           IN  message.ok /\ message.isObject /\ message.type # Some("user_message")) =>
         /\ pc'[s] = "Idle"
         /\ out'[s] = out[s]
         /\ turns'[s] = turns[s]
         /\ delivered'[s] = delivered[s]
         /\ BILLING_RECORDS' = BILLING_RECORDS]_vars

C6_Witness ==
  \E s \in Sessions :
    /\ received[s] = "ignored"
    /\ pc[s] = "Idle"
    /\ turns[s] = 1
    /\ EndsWithTerminal(out[s])
    /\ Len(BILLING_RECORDS) = 1

\* C7: once the client has left while a turn was in Streaming, no
\* record with the session's id is appended to the ledger.
C7_NoRecordAfterDisconnect ==
  [][\A s \in Sessions :
       discAt[s] \in {"Opening", "Streaming"} =>
         CountOf(BILLING_RECORDS', s) = CountOf(BILLING_RECORDS, s)]_vars

\* C8: once the client has left while the provider stream was in
\* flight, the relay consumes no further fragment of that stream.
C8_StreamCancelled ==
  [][\A s \in Sessions :
       discAt[s] = "Streaming" => delivered'[s] = delivered[s]]_vars

RECURSIVE ChunkTexts(_)
\* the texts of the chunk frames among the frames o, in order
ChunkTexts(o) ==
  IF o = <<>> THEN <<>>
  ELSE (IF Head(o).type = "chunk" THEN <<Head(o).text>> ELSE <<>>) \o ChunkTexts(Tail(o))

RECURSIVE NonEmptyContents(_)
\* the contents of the fragments d that have a choice with a content that is
\* neither missing nor empty, in order
NonEmptyContents(d) ==
  IF d = <<>> THEN <<>>
  ELSE (IF /\ Len(Head(d).choices) > 0
           /\ Head(d).choices[1].delta.content # <<>>
           /\ Head(d).choices[1].delta.content # << <<>> >>
        THEN <<Head(d).choices[1].delta.content[1]>>
        ELSE <<>>) \o NonEmptyContents(Tail(d))

\* C9: the chunk frames sent in a turn (one accepted with the client
\* connected) are the provider's fragments with non-empty content, in the
\* provider's order, one frame per fragment.
C9_ChunksFollowProvider ==
  \A s \in Sessions :
    discAt[s] # "Idle" => ChunkTexts(out[s]) = NonEmptyContents(delivered[s])

\* C10: every record of the ledger has a duration that is not
\* negative.
C10_DurationNotNegative ==
  \A i \in 1..Len(BILLING_RECORDS) : BILLING_RECORDS[i].duration_seconds >= 0

\* the record line 285 builds for a turn of session s that read the clock as
\* start, end and stamp
RecordOfTurn(s, start, end, stamp) ==
  [session_id |-> s,
   duration_seconds |-> Round2(end - start),
   model |-> "gpt-4o-mini",
   timestamp |-> stamp \div 1024]

\* the ledger holds the record of the latest turn of session s
HasRecordOfTurn(ledger, s) ==
  \E i \in 1..Len(ledger), stamp \in Readings :
    ledger[i] = RecordOfTurn(s, start_time[s], end_time[s], stamp)

\* C11: when every session has completed one turn, whatever the interleaving,
\* the ledger has one record per session and no other, and the record with a
\* session's id has the duration and the model of that session's own turn.
C11_OneRecordPerSession ==
  /\ \A s \in Sessions :
       /\ CountOf(BILLING_RECORDS, s) = ends[s]
       /\ (ends[s] = 1 /\ turns[s] = 1) => HasRecordOfTurn(BILLING_RECORDS, s)
  /\ \A i \in 1..Len(BILLING_RECORDS) : BILLING_RECORDS[i].session_id \in Sessions
  /\ (\A s \in Sessions : ends[s] = 1) => Len(BILLING_RECORDS) = Cardinality(Sessions)

C11_Witness ==
  /\ \A s \in Sessions : ends[s] = 1 /\ turns[s] = 1
  /\ Len(BILLING_RECORDS) = 2
  /\ BILLING_RECORDS[1].session_id = "s2"
  /\ BILLING_RECORDS[1].duration_seconds = 101
  /\ BILLING_RECORDS[2].session_id = "s1"
  /\ BILLING_RECORDS[2].duration_seconds = 0 - 101
  /\ pc["s1"] = "Finishing"

\* C12: while a turn of a session is in flight the relay reads no inbound
\* frame of that session and starts no turn; a turn starts only from Idle,
\* after the terminal frame of the turn before it; frames are sent only for
\* the turn in flight.
C12_OneTurnAtATime ==
  [][\A s \in Sessions :
       /\ InTurn(s) => (turns'[s] = turns[s] /\ Len(inbox'[s]) >= Len(inbox[s]))
       /\ turns'[s] # turns[s] =>
            /\ pc[s] = "Idle"
            /\ turns[s] > 0 => EndsWithTerminal(out[s])
       /\ (out'[s] # out[s] /\ out'[s] # <<>>) =>
            (InTurn(s) /\ Len(out'[s]) = Len(out[s]) + 1)]_vars

C12_Witness ==
  \E s \in Sessions :
    /\ pc[s] = "Streaming"
    /\ turns[s] = 1
    /\ Len(out[s]) = 1
    /\ inbox[s] = <<FrameUser>>

\* everything of the state that belongs to session s alone
Local(s) ==
  <<pc[s], connected[s], inbox[s], start_time[s], end_time[s], messages[s],
    out[s], delivered[s], turns[s], ends[s], received[s]>>

RECURSIVE RecordsOf(_, _)
\* the records of the ledger that carry the session's id, in order
RecordsOf(ledger, s) ==
  IF ledger = <<>> THEN <<>>
  ELSE (IF Head(ledger).session_id = s THEN <<Head(ledger)>> ELSE <<>>)
       \o RecordsOf(Tail(ledger), s)

\* C13: a step that changes something of one session (a provider failure, a
\* close, any other) changes nothing of another session, neither its state
\* nor its records in the ledger.
C13_SessionsIsolated ==
  [][\A s \in Sessions : \A t \in Sessions \ {s} :
       Local(s)' # Local(s) =>
         /\ Local(t)' = Local(t)
         /\ RecordsOf(BILLING_RECORDS', t) = RecordsOf(BILLING_RECORDS, t)]_vars

C13_Witness ==
  /\ pc["s1"] = "Closed"
  /\ turns["s1"] = 1
  /\ discAt["s1"] = "Streaming"
  /\ ends["s1"] = 0
  /\ pc["s2"] = "Idle"
  /\ Len(out["s2"]) = 2
  /\ out["s2"][2].type = "done"

\* the provider failure text e names the credential
NamesKey(e) == Contains(ApiKeyNeedle, Lower(e))

\* the text of the error frame a step has just sent to session s
SentError(s) == out'[s][Len(out'[s])].text

\* the chat relay handles a provider failure with text e and sends a frame
WsFails(s, e) ==
  /\ CreateFail(s, e) \/ StreamFail(s, e)
  /\ out'[s] # out[s]

\* the latest call was a conversion whose provider call raised
ConvFailed ==
  /\ request.endpoint \in {"/api/stt", "/api/tts"}
  /\ ~request.outcome.ok

\* C14 as stated: a failure whose text names api_key (in any case) is
\* surfaced as a fixed message that does not contain the provider's text, in
\* the chat error frame and in both conversion responses; any other failure
\* is surfaced with the provider's text unchanged.
C14_Original ==
  [][/\ \A s \in Sessions : \A e \in ErrorTexts :
          WsFails(s, e) =>
            IF NamesKey(e)
            THEN SentError(s) = WsKeyMessage /\ ~Contains(e, SentError(s))
            ELSE SentError(s) = e
     /\ ConvFailed' =>
          LET e == request'.outcome.text
              m == response'.body.error
          IN  /\ response'.status = 500
              /\ IF NamesKey(e)
                 THEN m = ConvKeyMessage /\ ~Contains(e, m)
                 ELSE m = e]_vars

\* C14: a failure whose text names api_key (in any case) is surfaced as a
\* fixed message, the same whatever the provider's text: WsKeyMessage in the
\* chat error frame, ConvKeyMessage (which never contains the provider's
\* text) in both conversion responses; any other failure is surfaced with
\* the provider's text unchanged.
C14_KeyErrorNormalised ==
  [][/\ \A s \in Sessions : \A e \in ErrorTexts :
          WsFails(s, e) =>
            SentError(s) = (IF NamesKey(e) THEN WsKeyMessage ELSE e)
     /\ ConvFailed' =>
          LET e == request'.outcome.text
              m == response'.body.error
          IN  /\ response'.status = 500
              /\ IF NamesKey(e)
                 THEN m = ConvKeyMessage /\ ~Contains(e, m)
                 ELSE m = e]_vars

C14_Witness ==
  /\ ConvFailed
  /\ request.outcome.text = ErrMixed
  /\ response.body.error = ConvKeyMessage
  /\ \E s \in Sessions :
       /\ pc[s] = "Idle"
       /\ Len(out[s]) = 1
       /\ out[s][1] = ErrorFrame(WsKeyMessage)

\* the field names of a billing record
RecordFields == {"session_id", "duration_seconds", "model", "timestamp"}

\* C15: the record a turn appends is determined by the session id and the
\* clock readings of the turn alone, whatever the utterance and the chunks
\* were, and every record of the ledger has exactly the four fields session
\* id, duration, model, timestamp.
C15_RecordIgnoresContent ==
  [][/\ \A s \in Sessions :
          ends'[s] # ends[s] =>
            \E stamp \in Readings :
              BILLING_RECORDS' =
                Append(BILLING_RECORDS,
                       RecordOfTurn(s, start_time[s], end_time'[s], stamp))
     /\ \A i \in 1..Len(BILLING_RECORDS') :
          DOMAIN BILLING_RECORDS'[i] = RecordFields]_vars

C15_Witness ==
  \E s \in Sessions :
    /\ turns[s] = 2
    /\ ends[s] = 2
    /\ messages[s][2].content = <<>>
    /\ delivered[s] = <<ChunkOf(Some(<<"b">>))>>
    /\ Len(BILLING_RECORDS) = 2
    /\ BILLING_RECORDS[1] = BILLING_RECORDS[2]

\* C16: build_messages returns a list whose first entry is the directive
\* with role system and whose last entry is the utterance with role user; it
\* has 3 entries, the second the whisper with role system, when the whisper
\* is given and not empty, and 2 entries when it is None or empty.
C16_ComposeShape ==
  request.endpoint = "build_messages" =>
    LET u == request.patient_text
        w == request.therapist_whisper
        m == response
    IN  /\ m[1] = [role |-> "system", content |-> MASTER_THERAPY_PROMPT]
        /\ m[Len(m)] = [role |-> "user", content |-> u]
        /\ IF w # None /\ w[1] # <<>>
           THEN Len(m) = 3 /\ m[2] = [role |-> "system", content |-> w[1]]
           ELSE Len(m) = 2

C16_Witness ==
  /\ request.endpoint = "build_messages"
  /\ request.patient_text = <<"h", "i">>
  /\ request.therapist_whisper = Some(<<>>)
  /\ Len(response) = 2

\* s is a prefix of t
IsPrefix(s, t) == Len(s) <= Len(t) /\ SubSeq(t, 1, Len(s)) = s

RECURSIVE TotalEnds(_)
\* the number of appends so far: the provider streams that ended, all sessions
TotalEnds(S) ==
  IF S = {} THEN 0
  ELSE LET s == CHOOSE x \in S : TRUE
       IN  ends[s] + TotalEnds(S \ {s})

\* C17: in every step the ledger is unchanged or gains one record at its
\* end; a dump returns the ledger as it is, in insertion order, with a count
\* equal to the number of appends so far, and what a dump returned stays a
\* prefix of the ledger ever after.
C17_AppendOnly ==
  [][/\ \/ BILLING_RECORDS' = BILLING_RECORDS
        \/ /\ Len(BILLING_RECORDS') = Len(BILLING_RECORDS) + 1
           /\ IsPrefix(BILLING_RECORDS, BILLING_RECORDS')
     /\ (request'.endpoint = "/billing-debug" /\ response' # response) =>
          /\ response'.body.records = BILLING_RECORDS
          /\ response'.body.total_sessions = TotalEnds(Sessions)
     /\ request'.endpoint = "/billing-debug" =>
          /\ IsPrefix(response'.body.records, BILLING_RECORDS')
          /\ response'.body.total_sessions = Len(response'.body.records)]_vars

C17_Witness ==
  /\ request.endpoint = "/billing-debug"
  /\ response.body.total_sessions = 1
  /\ response.body.records[1].session_id = "s2"
  /\ Len(BILLING_RECORDS) = 2

\* the step sends a done frame to session s
SendsDone(s) ==
  /\ Len(out'[s]) = Len(out[s]) + 1
  /\ out'[s][Len(out'[s])].type = "done"

\* C18: the record of a turn is appended when the provider stream has ended,
\* after the last chunk frame of the turn, and before the done frame: the
\* step that appends it sends nothing, no chunk frame of the turn follows it,
\* and in the step that sends the done frame the record of the turn is in the
\* ledger already.
C18_RecordBeforeDone ==
  [][\A s \in Sessions :
       /\ ends'[s] # ends[s] =>
            /\ pc[s] = "Streaming" /\ pc'[s] = "Finishing"
            /\ out'[s] = out[s]
            /\ CountOf(BILLING_RECORDS', s) = CountOf(BILLING_RECORDS, s) + 1
       /\ pc[s] = "Finishing" =>
            /\ HasRecordOfTurn(BILLING_RECORDS, s)
            /\ ChunkTexts(out'[s]) = ChunkTexts(out[s])
       /\ SendsDone(s) =>
            /\ pc[s] = "Finishing"
            /\ BILLING_RECORDS' = BILLING_RECORDS
            /\ CountOf(BILLING_RECORDS, s) = ends[s]]_vars

C18_Witness ==
  \E s \in Sessions :
    /\ turns[s] = 2
    /\ pc[s] = "Idle"
    /\ Len(out[s]) = 2
    /\ out[s][1].type = "chunk" /\ out[s][2].type = "done"
    /\ Len(BILLING_RECORDS) = 1
    /\ HasRecordOfTurn(BILLING_RECORDS, s)

\* C19: with the event loop fair to the coroutine and every provider call
\* returning, raising, or ending its stream after at most MaxChunks chunks, a
\* session in a turn (Opening, Streaming or Finishing) eventually is in Idle
\* with a terminal frame sent last, or in Closed.
C19_TurnIsLeft ==
  \A s \in Sessions :
    InTurn(s) ~> \/ pc[s] = "Idle" /\ EndsWithTerminal(out[s])
                 \/ pc[s] = "Closed"

C19_Witness ==
  \E s \in Sessions :
    /\ pc[s] = "Idle"
    /\ turns[s] = 1
    /\ Len(delivered[s]) = MaxChunks
    /\ Len(out[s]) = MaxChunks + 1
    /\ out[s][Len(out[s])].type = "done"

\* C20: when the done frame cannot be sent, the record appended for the turn
\* stays in the ledger, the error frame the relay then tries to send cannot
\* be sent either, and the session is Closed; no later step removes the
\* record.
C20_DoneSendFails ==
  [][\A s \in Sessions :
       /\ (pc[s] = "Finishing" /\ pc'[s] # "Finishing" /\ ~connected[s]) =>
            /\ BILLING_RECORDS' = BILLING_RECORDS
            /\ HasRecordOfTurn(BILLING_RECORDS', s)
            /\ out'[s] = out[s]
            /\ pc'[s] = "Closed"
       /\ pc[s] = "Closed" =>
            /\ pc'[s] = "Closed"
            /\ RecordsOf(BILLING_RECORDS', s) = RecordsOf(BILLING_RECORDS, s)]_vars

C20_Witness ==
  \E s \in Sessions :
    /\ pc[s] = "Closed"
    /\ ~connected[s]
    /\ discAt[s] = "Finishing"
    /\ turns[s] = 1
    /\ ends[s] = 1
    /\ Len(out[s]) = 1
    /\ out[s][1].type = "chunk"
    /\ Len(BILLING_RECORDS) = 1
    /\ HasRecordOfTurn(BILLING_RECORDS, s)

====
